---- MODULE Spec2Model ----
(***************************************************************************)
(* The short-code lifecycle engine of the URL shortener:                   *)
(*   controllers/urlController.js  createShortUrl, getShortUrlStats,       *)
(*                                 redirectToOriginal, getAllShortUrls     *)
(*   models/url.js                 urlSchema (defaults, validators, the    *)
(*                                 unique index and the TTL index)         *)
(* Every request handler is an async function; it is cut into one action   *)
(* per repository round trip (await), the synchronous code before and      *)
(* after the round trip belonging to the same action. The handlers that    *)
(* are suspended at an await form a bag: at most NumProcs at a time.       *)
(* The clock counts whole minutes; a validity is written in units of       *)
(* 1 / UnitsPerMinute minute, so that a fraction of a minute can be sent.  *)
(***************************************************************************)
EXTENDS Integers, Sequences, FiniteSets, Bags, TLC

\* ---------------------------------------------------------------- bounds
NumProcs == 2
MaxReq == 3
MaxSeqReq == 2
MaxTime == 2
UnitsPerMinute == 2

\* ------------------------------------------------------ program constants
MAX_ATTEMPTS == 5
CODE_SIZE == 5
DEFAULT_VALIDITY == 30
MIN_LENGTH == 5
MAX_LENGTH == 10
NULL == -1

VARIABLES
    now,       \* the clock: what new Date() and Date.now() return
    db,        \* the urls collection, in insertion order
    nextId,    \* the next _id the driver hands out
    started,   \* number of requests received so far
    inflight,  \* the suspended handlers: a bag of [pc, req], req the locals
    last,      \* the request answered by the latest step and its response
    issued,    \* history: every short code a 201 response has returned
    served,    \* history: per _id, the number of 302 responses sent
    urlInputs, \* the form's state array: per slot, a reference to an object
    objects,   \* the form's input objects, by reference
    fetches    \* the form's handleShortenUrl calls awaiting their response

serverVars == <<now, db, nextId, started, inflight, last, issued, served>>
formVars == <<urlInputs, objects, fetches>>
vars == <<now, db, nextId, started, inflight, last, issued, served,
          urlInputs, objects, fetches>>

Ids == 1..MaxReq

\* ------------------------------------------------------------- characters
Lower == {"a","b","c","d","e","f","g","h","i","j","k","l","m",
          "n","o","p","q","r","s","t","u","v","w","x","y","z"}
Upper == {"A","B","C","D","E","F","G","H","I","J","K","L","M",
          "N","O","P","Q","R","S","T","U","V","W","X","Y","Z"}
Digit == {"0","1","2","3","4","5","6","7","8","9"}
\* the character class [a-zA-Z0-9] of the custom-code test
AlnumClass == Lower \cup Upper \cup Digit
\* nanoid's default alphabet: the URL-friendly A-Za-z0-9 plus "_" and "-"
urlAlphabet == AlnumClass \cup {"_", "-"}

\* /^[a-zA-Z0-9]{5,10}$/.test(code)
CustomCodeFormatOk(code) ==
    /\ Len(code) >= 5
    /\ Len(code) <= 10
    /\ \A i \in 1..Len(code) : code[i] \in AlnumClass

\* ----------------------------------------------------------------- inputs
\* short codes are sequences of one-character strings
CodeAbcd1 == <<"a","b","c","d","1">>
CodeDashed == <<"X","y","_","-","9">>
CodeShort == <<"a","b">>
NoCustom == <<>>

CodePool == {CodeAbcd1, CodeDashed, CodeShort}

\* nanoid(size): any string of that length over urlAlphabet (here: of the pool)
nanoid(size) ==
    {c \in CodePool : Len(c) = size /\ \A i \in 1..Len(c) : c[i] \in urlAlphabet}

\* URLs by their parts; the empty URL stands for a missing / empty url field
UrlMissing == [scheme |-> "", host |-> "", path |-> ""]
UrlNotAUrl == [scheme |-> "", host |-> "", path |-> "not-a-url"]
UrlHttps == [scheme |-> "https", host |-> "example.com", path |-> "/a"]
UrlMailto == [scheme |-> "mailto", host |-> "", path |-> "a@b.c"]
UrlWs == [scheme |-> "ws", host |-> "example.com", path |-> "/a"]
UrlPool == {UrlMissing, UrlNotAUrl, UrlHttps, UrlMailto, UrlWs}

\* validity as sent in the JSON body: its typeof and, for a number, its value
\* in units (v units = v / UnitsPerMinute minutes)
ValidityAbsent == [t |-> "undefined", v |-> 0]
ValidityNull == [t |-> "object", v |-> 0]
ValidityString == [t |-> "string", v |-> 0]
ValidityNum(v) == [t |-> "number", v |-> v]
ValidityPool ==
    {ValidityAbsent, ValidityNull, ValidityString, ValidityNum(0 - 1),
     ValidityNum(0), ValidityNum(1), ValidityNum(UnitsPerMinute)}

\* request contexts of a redirect: the two headers ("" = header absent), req.ip
NoHeader == ""
CtxPool ==
    {[referer |-> "https://ref.example", agent |-> "curl", ip |-> "10.0.0.1"],
     [referer |-> NoHeader, agent |-> "curl", ip |-> "10.0.0.1"],
     [referer |-> NoHeader, agent |-> NoHeader, ip |-> "10.0.0.2"]}

\* ---------------------------------------------------------- pure helpers
\* isValidUrl: new URL(url) does not throw. An absolute URL needs a scheme,
\* and a special scheme (http, https, ftp, ws, wss) needs a host.
SpecialSchemes == {"http", "https", "ftp", "ws", "wss"}
isValidUrl(url) ==
    /\ url.scheme # ""
    /\ (url.scheme \in SpecialSchemes => url.host # "")

\* urlSchema.originalUrl.match: /^(https?|ftp):\/\/[^\s/$.?#].[^\s]*$/i
OriginalUrlMatch(url) ==
    /\ url.scheme \in {"http", "https", "ftp"}
    /\ url.host # ""

\* calculateExpiry(validityMinutes) evaluated at minute t; validityMinutes in
\* units. Date.setMinutes truncates its argument to an integer number of
\* minutes.
calculateExpiry(validityUnits, t) ==
    IF validityUnits # 0 /\ validityUnits > 0
    THEN t + (validityUnits \div UnitsPerMinute)
    ELSE NULL

\* validity || 30
ValidityOrDefault(validity) ==
    IF validity.t = "number" /\ validity.v # 0
    THEN validity.v
    ELSE DEFAULT_VALIDITY * UnitsPerMinute

\* (mutant) the validity test checks the type only
ValidityRejected_typeOnly(validity) ==
    validity.t # "undefined" /\ validity.t # "number"

\* the validity test of createShortUrl
ValidityRejected(validity) ==
    validity.t # "undefined" /\ (validity.t # "number" \/ validity.v <= 0)

\* urlEntry.expiresAt && urlEntry.expiresAt < new Date()
IsExpired(doc, t) == doc.expiresAt # NULL /\ doc.expiresAt < t

\* (mutant) the user-agent header is preferred to the referer header
ClickSource_agentFirst(ctx) ==
    IF ctx.agent # NoHeader THEN ctx.agent
    ELSE IF ctx.referer # NoHeader THEN ctx.referer
    ELSE "Direct/Unknown"

\* req.headers['referer'] || req.headers['user-agent'] || 'Direct/Unknown'
ClickSource(ctx) ==
    IF ctx.referer # NoHeader THEN ctx.referer
    ELSE IF ctx.agent # NoHeader THEN ctx.agent
    ELSE "Direct/Unknown"

\* ------------------------------------------------------------- repository
\* Url.findOne({ shortCode }): is there a document, and the first one
Found(d, code) == \E i \in 1..Len(d) : d[i].shortCode = code
FindOne(d, code) ==
    d[CHOOSE i \in 1..Len(d) :
        /\ d[i].shortCode = code
        /\ \A j \in 1..(i - 1) : d[j].shortCode # code]

\* the document with a given _id
HasId(d, id) == \E i \in 1..Len(d) : d[i].id = id
IndexOfId(d, id) == CHOOSE i \in 1..Len(d) : d[i].id = id

\* (mutant) no unique index
UniqueViolation_off(d, code) == FALSE

\* unique: true on shortCode: the index rejects a second document with the code
UniqueViolation(d, code) == \E i \in 1..Len(d) : d[i].shortCode = code

\* (mutant) the clicks default is 1
NewUrl_clicksOne(url, code, expiresAt, t) ==
    [id |-> 0, originalUrl |-> url, shortCode |-> code, createdAt |-> t,
     expiresAt |-> expiresAt, clicks |-> 1, clickHistory |-> <<>>]

\* new Url({originalUrl, shortCode, expiresAt}) at time t: the schema defaults
NewUrl(url, code, expiresAt, t) ==
    [id |-> 0, originalUrl |-> url, shortCode |-> code, createdAt |-> t,
     expiresAt |-> expiresAt, clicks |-> 0, clickHistory |-> <<>>]

\* (mutant) expiresAt has no validator
SchemaValid_anyExpiry(doc, t) ==
    /\ OriginalUrlMatch(doc.originalUrl)
    /\ Len(doc.shortCode) >= MIN_LENGTH
    /\ Len(doc.shortCode) <= MAX_LENGTH

\* the schema's validators, run by save() on a new document at time t
SchemaValid(doc, t) ==
    /\ OriginalUrlMatch(doc.originalUrl)
    /\ Len(doc.shortCode) >= MIN_LENGTH
    /\ Len(doc.shortCode) <= MAX_LENGTH
    /\ (doc.expiresAt = NULL \/ doc.expiresAt > t)

\* removal of the i-th document
RemoveAt(d, i) == SubSeq(d, 1, i - 1) \o SubSeq(d, i + 1, Len(d))

\* ------------------------------------------------------------- responses
Response(outcome, status, body) ==
    [outcome |-> outcome, status |-> status, body |-> body]
NoBody == <<>>
NoResponse == Response("none", 0, NoBody)
NoRequest == [op |-> "none"]

\* date.toISOString(): the timestamp as an ISO-8601 string
toISOString(t) == [iso |-> t]
IsoOrNull(t) == IF t # NULL THEN toISOString(t) ELSE [iso |-> NULL]

\* ------------------------------------------------- the form's first state
\* the page shows five slots
NumSlots == 5
Slots == 1..NumSlots

\* null in the error field (the messages are strings)
NoError == "null"

\* { originalUrl: '', validity: '', shortcode: '', result: null, error: null,
\*   loading: false }
EmptyInput ==
    [originalUrl |-> UrlMissing, validity |-> <<>>, shortcode |-> NoCustom,
     result |-> NoBody, error |-> NoError, loading |-> FALSE]

\* useState(Array(5).fill({...})): fill stores the one object it is given in
\* every position, so the five slots hold the same reference
FormInit ==
    /\ objects = <<EmptyInput>>
    /\ urlInputs = [i \in Slots |-> 1]
    /\ fetches = {}

\* -------------------------------------------------------------- the state
NoAnswer == [req |-> NoRequest, resp |-> NoResponse]

Init ==
    /\ now = 0
    /\ db = <<>>
    /\ nextId = 1
    /\ started = 0
    /\ inflight = EmptyBag
    /\ last = NoAnswer
    /\ issued = {}
    /\ served = [i \in Ids |-> 0]
    /\ FormInit

\* a handler's continuation: where it is suspended next (or "idle" once it has
\* answered), its locals, its response
Cont(nextPc, r, response) == [pc |-> nextPc, req |-> r, resp |-> response]
Answer(r, response) == Cont("idle", r, response)

Suspended == BagToSet(inflight)
One(h) == SetToBag({h})

\* the handler of a new request runs up to continuation c
Begin(c) ==
    /\ inflight' = IF c.pc = "idle"
                   THEN inflight
                   ELSE inflight (+) One([pc |-> c.pc, req |-> c.req])
    /\ last' = IF c.pc = "idle" THEN [req |-> c.req, resp |-> c.resp]
               ELSE NoAnswer
    /\ UNCHANGED formVars

\* the suspended handler h resumes and runs up to continuation c
Resume(h, c) ==
    /\ inflight' = IF c.pc = "idle"
                   THEN inflight (-) One(h)
                   ELSE (inflight (-) One(h)) (+) One([pc |-> c.pc, req |-> c.req])
    /\ last' = IF c.pc = "idle" THEN [req |-> c.req, resp |-> c.resp]
               ELSE NoAnswer
    /\ UNCHANGED formVars

\* a request can be received: a handler can be started
CanStart == BagCardinality(inflight) < NumProcs /\ started < MaxReq

\* ----------------------------------------------------------------- Create
\* steps 4 and 5 of createShortUrl and the validation save() runs before it
\* sends the insert: the code to use is known, time is t
BuildDocument(r, code, t) ==
    LET expiresAt == calculateExpiry(ValidityOrDefault(r.validity), t)
        doc == NewUrl(r.url, code, expiresAt, t)
    IN  IF SchemaValid(doc, t)
        THEN Cont("c_insert", [r EXCEPT !.doc = doc], NoResponse)
        ELSE Answer(r, Response("ValidationError", 400, NoBody))

\* (mutant) the availability lookup skips logically expired records
HandleCustom_liveOnly(r, d, t) ==
    IF Found(d, r.custom) /\ ~IsExpired(FindOne(d, r.custom), t)
    THEN Answer(r, Response("CodeConflict", 409, NoBody))
    ELSE IF ~CustomCodeFormatOk(r.custom)
    THEN Answer(r, Response("CodeFormatInvalid", 400, NoBody))
    ELSE BuildDocument(r, r.custom, t)

\* step 2 of createShortUrl: the custom code, looked up in d at time t
HandleCustom(r, d, t) ==
    IF Found(d, r.custom)
    THEN Answer(r, Response("CodeConflict", 409, NoBody))
    ELSE IF ~CustomCodeFormatOk(r.custom)
    THEN Answer(r, Response("CodeFormatInvalid", 400, NoBody))
    ELSE BuildDocument(r, r.custom, t)

\* (mutant) the validity is checked before the url
CreateEntry_validityFirst(r, d, t) ==
    IF ValidityRejected(r.validity)
    THEN Answer(r, Response("InvalidValidity", 400, NoBody))
    ELSE IF r.url = UrlMissing
    THEN Answer(r, Response("MissingUrl", 400, NoBody))
    ELSE IF ~isValidUrl(r.url)
    THEN Answer(r, Response("InvalidUrl", 400, NoBody))
    ELSE IF r.custom # NoCustom
    THEN HandleCustom(r, d, t)
    ELSE Cont("c_gen", r, NoResponse)

\* step 1 of createShortUrl, then the custom-code branch or the generator
CreateEntry(r, d, t) ==
    IF r.url = UrlMissing
    THEN Answer(r, Response("MissingUrl", 400, NoBody))
    ELSE IF ~isValidUrl(r.url)
    THEN Answer(r, Response("InvalidUrl", 400, NoBody))
    ELSE IF ValidityRejected(r.validity)
    THEN Answer(r, Response("InvalidValidity", 400, NoBody))
    ELSE IF r.custom # NoCustom
    THEN HandleCustom(r, d, t)
    ELSE Cont("c_gen", r, NoResponse)

CreateStart(url, validity, custom) ==
    /\ CanStart
    /\ started' = started + 1
    /\ Begin(CreateEntry(
           [op |-> "create", url |-> url, validity |-> validity,
            custom |-> custom, shortCodeToUse |-> custom, attempts |-> 0,
            doc |-> NoBody], db, now))
    /\ UNCHANGED <<now, db, nextId, issued, served>>

\* (mutant) the loop condition is attempts <= MAX_ATTEMPTS
GenerateTurn_sixTries(r, cand, d, t) ==
    LET r1 == [r EXCEPT !.shortCodeToUse = cand, !.attempts = r.attempts + 1]
    IN  IF ~Found(d, cand)
        THEN BuildDocument(r1, cand, t)
        ELSE IF r1.attempts <= MAX_ATTEMPTS
        THEN Cont("c_gen", r1, NoResponse)
        ELSE Answer(r1, Response("GenerationExhausted", 500, NoBody))

\* (mutant) the loop has no bound: attempts is not counted
GenerateTurn_unbounded(r, cand, d, t) ==
    LET r1 == [r EXCEPT !.shortCodeToUse = cand]
    IN  IF ~Found(d, cand)
        THEN BuildDocument(r1, cand, t)
        ELSE Cont("c_gen", r1, NoResponse)

\* one turn of the generator loop: shortCodeToUse = nanoid(5), its lookup,
\* attempts++
GenerateTurn(r, cand, d, t) ==
    LET r1 == [r EXCEPT !.shortCodeToUse = cand, !.attempts = r.attempts + 1]
    IN  IF ~Found(d, cand)
        THEN BuildDocument(r1, cand, t)
        ELSE IF r1.attempts < MAX_ATTEMPTS
        THEN Cont("c_gen", r1, NoResponse)
        ELSE Answer(r1, Response("GenerationExhausted", 500, NoBody))

CreateGenerate(h, cand) ==
    /\ h \in Suspended
    /\ h.pc = "c_gen"
    /\ Resume(h, GenerateTurn(h.req, cand, db, now))
    /\ UNCHANGED <<now, db, nextId, started, issued, served>>

\* newUrl.save(): the insert, and the 201 or the catch block
CreateInsert(h) ==
    /\ h \in Suspended
    /\ h.pc = "c_insert"
    /\ LET doc == h.req.doc
       IN  IF UniqueViolation(db, doc.shortCode)
           THEN /\ Resume(h, Answer(h.req, Response("ServerError", 500, NoBody)))
                /\ UNCHANGED <<db, nextId, issued>>
           ELSE /\ db' = Append(db, [doc EXCEPT !.id = nextId])
                /\ nextId' = nextId + 1
                /\ issued' = issued \cup {doc.shortCode}
                /\ Resume(h, Answer(h.req, Response("Created", 201,
                       [shortCode |-> doc.shortCode,
                        originalUrl |-> doc.originalUrl,
                        expiry |-> IsoOrNull(doc.expiresAt)])))
    /\ UNCHANGED <<now, started, served>>

\* --------------------------------------------------------------- GetStats
StatsView(doc) ==
    [shortCode |-> doc.shortCode, originalUrl |-> doc.originalUrl,
     createdAt |-> toISOString(doc.createdAt),
     expiresAt |-> IsoOrNull(doc.expiresAt),
     totalClicks |-> doc.clicks,
     clickHistory |->
        [i \in 1..Len(doc.clickHistory) |->
            [timestamp |-> toISOString(doc.clickHistory[i].timestamp),
             source |-> doc.clickHistory[i].source,
             location |-> doc.clickHistory[i].location]]]

\* (mutant) the expiry test comes first and a missing record counts as expired
StatsResult_goneFirst(r, d, t) ==
    IF ~Found(d, r.code) \/ IsExpired(FindOne(d, r.code), t)
    THEN Answer(r, Response("Gone", 410, NoBody))
    ELSE Answer(r, Response("Stats", 200, StatsView(FindOne(d, r.code))))

StatsResult(r, d, t) ==
    IF ~Found(d, r.code)
    THEN Answer(r, Response("NotFound", 404, NoBody))
    ELSE IF IsExpired(FindOne(d, r.code), t)
    THEN Answer(r, Response("Gone", 410, NoBody))
    ELSE Answer(r, Response("Stats", 200, StatsView(FindOne(d, r.code))))

GetStats(code) ==
    /\ CanStart
    /\ started' = started + 1
    /\ Begin(StatsResult([op |-> "stats", code |-> code], db, now))
    /\ UNCHANGED <<now, db, nextId, issued, served>>

\* --------------------------------------------------------------- Redirect
\* findOne, the two early returns, then the in-memory update of the document
\* the handler holds: clicks += 1 and clickHistory.push(...) at time t
RedirectLookup(r, d, t) ==
    IF ~Found(d, r.code)
    THEN Answer(r, Response("NotFound", 404, NoBody))
    ELSE IF IsExpired(FindOne(d, r.code), t)
    THEN Answer(r, Response("Gone", 410, NoBody))
    ELSE LET doc == FindOne(d, r.code)
         IN  Cont("r_save",
                  [r EXCEPT !.docId = doc.id,
                            !.clicks = doc.clicks + 1,
                            !.pushed = [timestamp |-> t,
                                        source |-> ClickSource(r.ctx),
                                        location |-> r.ctx.ip],
                            !.originalUrl = doc.originalUrl],
                  NoResponse)

\* the request as received: the handler's locals not yet set
RedirectReq(code, ctx) ==
    [op |-> "redirect", code |-> code, ctx |-> ctx, docId |-> 0,
     clicks |-> 0, pushed |-> NoBody, originalUrl |-> NoBody]

\* (mutant) the click is written before the lookup's result is examined
RedirectFind_clickFirst(code, ctx) ==
    /\ CanStart
    /\ started' = started + 1
    /\ Begin(RedirectLookup(RedirectReq(code, ctx), db, now))
    /\ db' = [i \in 1..Len(db) |->
                IF db[i].shortCode = code
                THEN [db[i] EXCEPT !.clicks = @ + 1]
                ELSE db[i]]
    /\ UNCHANGED <<now, nextId, issued, served>>

RedirectFind(code, ctx) ==
    /\ CanStart
    /\ started' = started + 1
    /\ Begin(RedirectLookup(RedirectReq(code, ctx), db, now))
    /\ UNCHANGED <<now, db, nextId, issued, served>>

\* (mutant) the update is filtered by originalUrl instead of _id
SaveClick_byOriginalUrl(d, r) ==
    [i \in 1..Len(d) |->
        IF d[i].originalUrl = r.originalUrl
        THEN [d[i] EXCEPT !.clicks = r.clicks,
                          !.clickHistory = Append(@, r.pushed)]
        ELSE d[i]]

\* (mutant) every save renews the expiry of the document (sliding expiry)
SaveClick_renewExpiry(d, r) ==
    [d EXCEPT ![IndexOfId(d, r.docId)] =
        [@ EXCEPT !.clicks = r.clicks,
                  !.clickHistory = Append(@, r.pushed),
                  !.expiresAt = r.pushed.timestamp + DEFAULT_VALIDITY]]

\* urlEntry.save() of a loaded document whose clicks was assigned and whose
\* clickHistory was pushed to: one update of the document with that _id,
\* setting clicks to the handler's value and pushing the new event
SaveClick(d, r) ==
    [d EXCEPT ![IndexOfId(d, r.docId)] =
        [@ EXCEPT !.clicks = r.clicks,
                  !.clickHistory = Append(@, r.pushed)]]

\* (mutant) save() is not awaited: the redirect is sent whatever the write does
RedirectSave_notAwaited(h) ==
    /\ h \in Suspended
    /\ h.pc = "r_save"
    /\ IF HasId(db, h.req.docId)
       THEN /\ db' = SaveClick(db, h.req)
            /\ served' = [served EXCEPT ![h.req.docId] = @ + 1]
       ELSE UNCHANGED <<db, served>>
    /\ Resume(h, Answer(h.req, Response("Redirected", 302, h.req.originalUrl)))
    /\ UNCHANGED <<now, nextId, started, issued>>

\* (mutant) the write is an upsert: it re-creates a document that is gone
RedirectSave_upsert(h) ==
    /\ h \in Suspended
    /\ h.pc = "r_save"
    /\ IF HasId(db, h.req.docId)
       THEN db' = SaveClick(db, h.req)
       ELSE db' = Append(db,
                [id |-> h.req.docId, originalUrl |-> h.req.originalUrl,
                 shortCode |-> h.req.code, createdAt |-> now,
                 expiresAt |-> NULL, clicks |-> h.req.clicks,
                 clickHistory |-> <<h.req.pushed>>])
    /\ served' = [served EXCEPT ![h.req.docId] = @ + 1]
    /\ Resume(h, Answer(h.req, Response("Redirected", 302, h.req.originalUrl)))
    /\ UNCHANGED <<now, nextId, started, issued>>

RedirectSave(h) ==
    /\ h \in Suspended
    /\ h.pc = "r_save"
    /\ IF HasId(db, h.req.docId)
       THEN /\ db' = SaveClick(db, h.req)
            /\ served' = [served EXCEPT ![h.req.docId] = @ + 1]
            /\ Resume(h, Answer(h.req,
                   Response("Redirected", 302, h.req.originalUrl)))
       ELSE /\ Resume(h, Answer(h.req, Response("ServerError", 500, NoBody)))
            /\ UNCHANGED <<db, served>>
    /\ UNCHANGED <<now, nextId, started, issued>>

\* ---------------------------------------------------------------- ListAll
Summary(doc) ==
    [shortCode |-> doc.shortCode, originalUrl |-> doc.originalUrl,
     createdAt |-> toISOString(doc.createdAt),
     expiresAt |-> IsoOrNull(doc.expiresAt),
     totalClicks |-> doc.clicks]

\* (mutant) the query returns the unexpired records only
ListAll_activeOnly ==
    /\ CanStart
    /\ started' = started + 1
    /\ Begin(Answer([op |-> "list"],
           Response("List", 200,
               LET live == SelectSeq(db, LAMBDA doc : ~IsExpired(doc, now))
               IN  [i \in 1..Len(live) |-> Summary(live[i])])))
    /\ UNCHANGED <<now, db, nextId, issued, served>>

\* Url.find({}, fields) and the map to summaries
ListAll ==
    /\ CanStart
    /\ started' = started + 1
    /\ Begin(Answer([op |-> "list"],
           Response("List", 200, [i \in 1..Len(db) |-> Summary(db[i])])))
    /\ UNCHANGED <<now, db, nextId, issued, served>>

\* ------------------------------------------------------- time and eviction
Tick ==
    /\ now < MaxTime
    /\ now' = now + 1
    /\ last' = NoAnswer
    /\ UNCHANGED <<db, nextId, started, inflight, issued, served>>
    /\ UNCHANGED formVars

\* the TTL index on expiresAt, expireAfterSeconds: 0: the server's monitor
\* removes a document whose expiresAt has been reached
Evict(i) ==
    /\ i \in 1..Len(db)
    /\ db[i].expiresAt # NULL
    /\ db[i].expiresAt <= now
    /\ db' = RemoveAt(db, i)
    /\ last' = NoAnswer
    /\ UNCHANGED <<now, nextId, started, inflight, issued, served>>
    /\ UNCHANGED formVars

\* ------------------------------------------------- the lifecycle model
\* concurrent requests drawn from: a valid and an invalid URL, a validity of
\* one minute, no custom code or one, two short codes, one request context
SpecUrls == {UrlHttps, UrlNotAUrl}
SpecValidities == {ValidityNum(UnitsPerMinute)}
SpecCustoms == {NoCustom, CodeAbcd1}
SpecCodes == {CodeAbcd1, CodeDashed}
SpecCtxs == {[referer |-> NoHeader, agent |-> "curl", ip |-> "10.0.0.1"]}

Next ==
    \/ Tick
    \/ \E i \in Ids : Evict(i)
    \/ \E url \in SpecUrls, validity \in SpecValidities, custom \in SpecCustoms :
            CreateStart(url, validity, custom)
    \/ \E h \in Suspended, cand \in nanoid(CODE_SIZE) : CreateGenerate(h, cand)
    \/ \E h \in Suspended : CreateInsert(h)
    \/ \E code \in SpecCodes : GetStats(code)
    \/ \E code \in SpecCodes, ctx \in SpecCtxs : RedirectFind(code, ctx)
    \/ \E h \in Suspended : RedirectSave(h)
    \/ ListAll

Spec == Init /\ [][Next]_vars

\* ------------------------------------------------- the sequential model
\* one request at a time, MaxSeqReq in all, drawn from every input of the pools
Quiet == inflight = EmptyBag /\ started < MaxSeqReq

NextSeq ==
    \/ Tick
    \/ \E i \in Ids : Evict(i)
    \/ \E url \in UrlPool, validity \in ValidityPool,
          custom \in CodePool \cup {NoCustom} :
            Quiet /\ CreateStart(url, validity, custom)
    \/ \E h \in Suspended, cand \in nanoid(CODE_SIZE) : CreateGenerate(h, cand)
    \/ \E h \in Suspended : CreateInsert(h)
    \/ \E code \in CodePool : Quiet /\ GetStats(code)
    \/ \E code \in CodePool, ctx \in CtxPool : Quiet /\ RedirectFind(code, ctx)
    \/ \E h \in Suspended : RedirectSave(h)
    \/ Quiet /\ ListAll

SpecSeq == Init /\ [][NextSeq]_vars

\* ------------------------------------------------------ the click model
\* the server starts over a collection that already holds one record, created
\* at minute 0 with the default validity; the requests are Redirects and
\* GetStats on its code
StoredAtStart ==
    [NewUrl(UrlHttps, CodeAbcd1,
            calculateExpiry(ValidityOrDefault(ValidityAbsent), 0), 0)
        EXCEPT !.id = 1]

InitStored ==
    /\ now = 0
    /\ db = <<StoredAtStart>>
    /\ nextId = 2
    /\ started = 0
    /\ inflight = EmptyBag
    /\ last = NoAnswer
    /\ issued = {CodeAbcd1}
    /\ served = [i \in Ids |-> 0]
    /\ FormInit

NextClicks ==
    \/ Tick
    \/ GetStats(CodeAbcd1)
    \/ \E ctx \in SpecCtxs : RedirectFind(CodeAbcd1, ctx)
    \/ \E h \in Suspended : RedirectSave(h)

SpecClicks == InitStored /\ [][NextClicks]_vars

\* ======================================================================
\* Properties
\* ======================================================================
\* the document stored under a code is logically expired at time t (3: a
\* record is logically expired iff expiresAt is set and at or before now)
LogicallyExpired(doc, t) == doc.expiresAt # NULL /\ doc.expiresAt <= t

\* a request is received in this step
Starts == started' = started + 1
\* the request received in this step is answered in this step
AnsweredAtOnce == Starts /\ inflight' = inflight
\* the handler that this step's request left suspended
NewHandler ==
    CHOOSE h \in BagToSet(inflight') : CopiesIn(h, inflight') > CopiesIn(h, inflight)
\* the request received in this step, with the locals its first step set
StartedReq == IF AnsweredAtOnce THEN last'.req ELSE NewHandler.req
\* the suspended handler h resumes in this step and sends its response
Answers(h) ==
    /\ h \in Suspended
    /\ ~Starts
    /\ CopiesIn(h, inflight') < CopiesIn(h, inflight)
    /\ last' = [req |-> h.req, resp |-> last'.resp]
    /\ last' # NoAnswer

\* ---------------------------------------------------------------------
\* C1: in every reachable state every stored record has
\* clicks = length(clickHistory).
C1_ClicksEqualsHistoryLength ==
    \A i \in 1..Len(db) : db[i].clicks = Len(db[i].clickHistory)

\* ---------------------------------------------------------------------
\* C2: once the N Redirects that looked up a record have all answered with a
\* redirect (none is still between its lookup and its write), the record has
\* clicks = N and length(clickHistory) = N.
C2_NoLostClick ==
    \A i \in 1..Len(db) :
        (\A h \in Suspended : ~(h.pc = "r_save" /\ h.req.docId = db[i].id))
        => /\ db[i].clicks = served[db[i].id]
           /\ Len(db[i].clickHistory) = served[db[i].id]

\* ---------------------------------------------------------------------
\* C3: no two records of the repository have the same shortCode, logically
\* expired records that are not yet evicted included.
C3_UniqueShortCodes ==
    \A i, j \in 1..Len(db) : i # j => db[i].shortCode # db[j].shortCode

\* two Creates raced for one code: the second insert met the stored record
C3_Witness ==
    /\ last.req.op = "create"
    /\ last.resp.outcome = "ServerError"
    /\ Found(db, last.req.doc.shortCode)
    /\ LogicallyExpired(FindOne(db, last.req.doc.shortCode), now)

\* ---------------------------------------------------------------------
\* C4: when a Create with a custom code has passed the availability lookup
\* and its insert meets a record with that code (written by a concurrent
\* Create), it answers CodeConflict (409) and the stored record stays as is.
C4_RaceLoserGetsConflict ==
    [][\A h \in Suspended :
          (/\ Answers(h)
           /\ h.pc = "c_insert"
           /\ h.req.custom # NoCustom
           /\ Found(db, h.req.custom))
          => /\ last'.resp.outcome = "CodeConflict"
             /\ last'.resp.status = 409
             /\ db' = db]_vars

\* ---------------------------------------------------------------------
\* C5: the short code of every successful Create without a custom code has
\* exactly 5 characters, each of A-Z, a-z, 0-9, and that code is the stored one.
C5_GeneratedCodeAlnum5 ==
    (/\ last.req.op = "create"
     /\ last.req.custom = NoCustom
     /\ last.resp.outcome = "Created")
    => /\ Len(last.resp.body.shortCode) = 5
       /\ \A i \in 1..Len(last.resp.body.shortCode) :
             last.resp.body.shortCode[i] \in AlnumClass
       /\ Found(db, last.resp.body.shortCode)

\* ---------------------------------------------------------------------
\* a Create without a custom code answers 201 in this step
GeneratedCreated ==
    /\ last'.req.op = "create"
    /\ last'.req.custom = NoCustom
    /\ last'.resp.outcome = "Created"
    /\ \E h \in Suspended : Answers(h)

\* C6 (as claimed): the short code a successful Create without a custom code
\* returns differs from every short code an earlier successful Create
\* returned, codes of expired or evicted records included.
C6_NeverIssuedBefore ==
    [][GeneratedCreated => last'.resp.body.shortCode \notin issued]_vars

\* C6 (amended): the short code a successful Create without a custom code
\* returns differs from the shortCode of every record that is in the
\* repository when the Create persists its record, live or logically expired.
C6_NotStoredWhenIssued ==
    [][GeneratedCreated =>
          /\ ~Found(db, last'.resp.body.shortCode)
          /\ Found(db', last'.resp.body.shortCode)]_vars

\* a generated code was issued while an expired, unevicted record was stored
C6_Witness ==
    /\ last.req.op = "create"
    /\ last.req.custom = NoCustom
    /\ last.resp.outcome = "Created"
    /\ \E i \in 1..Len(db) :
          /\ LogicallyExpired(db[i], now)
          /\ db[i].shortCode # last.resp.body.shortCode

\* ---------------------------------------------------------------------
\* C7: for a record that is in the repository, GetStats and Redirect answer
\* Gone whenever expiresAt <= now, the instant expiresAt = now included, and
\* get past the expiry check only when expiresAt > now.
C7_GoneAtOrAfterExpiry ==
    [][(/\ Starts
        /\ StartedReq.op \in {"stats", "redirect"}
        /\ Found(db, StartedReq.code)
        /\ LogicallyExpired(FindOne(db, StartedReq.code), now))
       => /\ AnsweredAtOnce
          /\ last'.resp.outcome = "Gone"]_vars

\* ---------------------------------------------------------------------
\* C8: whenever a Redirect's write appends a ClickEvent and increments clicks,
\* the record's expiresAt is strictly after the time of that write.
C8_NoClickWhenExpired ==
    [][\A h \in Suspended :
          (/\ Answers(h)
           /\ h.pc = "r_save"
           /\ HasId(db, h.req.docId)
           /\ db' # db)
          => ~LogicallyExpired(db[IndexOfId(db, h.req.docId)], now)]_vars

\* ---------------------------------------------------------------------
\* C9: a Redirect that answers Gone or NotFound leaves the repository as it
\* was: no record is added, removed or changed.
C9_FailedRedirectLeavesRepository ==
    [][(/\ Starts
        /\ StartedReq.op = "redirect"
        /\ AnsweredAtOnce
        /\ last'.resp.outcome \in {"Gone", "NotFound"})
       => db' = db]_vars

\* a Redirect answered Gone for a stored record that has a recorded click
C9_Witness ==
    /\ last.req.op = "redirect"
    /\ last.resp.outcome = "Gone"
    /\ Found(db, last.req.code)
    /\ FindOne(db, last.req.code).clicks = 1
    /\ Len(FindOne(db, last.req.code).clickHistory) = 1

\* ---------------------------------------------------------------------
\* the request received in this step is a Create with a custom code that is
\* the shortCode of a stored record
CreateWithTakenCode ==
    /\ Starts
    /\ StartedReq.op = "create"
    /\ StartedReq.custom # NoCustom
    /\ Found(db, StartedReq.custom)

\* C10 (as claimed): a Create with a custom code equal to the shortCode of a
\* record in the repository, live or logically expired, answers CodeConflict,
\* adds no record and leaves the stored records unchanged.
C10_TakenCodeConflicts ==
    [][CreateWithTakenCode
       => /\ AnsweredAtOnce
          /\ last'.resp.outcome = "CodeConflict"
          /\ db' = db]_vars

\* C10 (amended): the same, for a Create whose url is present and parses and
\* whose validity is absent or a positive number.
C10_TakenCodeConflictsValidInput ==
    [][(/\ CreateWithTakenCode
        /\ StartedReq.url # UrlMissing
        /\ isValidUrl(StartedReq.url)
        /\ ~ValidityRejected(StartedReq.validity))
       => /\ AnsweredAtOnce
          /\ last'.resp.outcome = "CodeConflict"
          /\ last'.resp.status = 409
          /\ db' = db]_vars

\* CodeConflict was answered for the code of a logically expired record that
\* has a recorded click
C10_Witness ==
    /\ last.req.op = "create"
    /\ last.resp.outcome = "CodeConflict"
    /\ Found(db, last.req.custom)
    /\ LogicallyExpired(FindOne(db, last.req.custom), now)
    /\ FindOne(db, last.req.custom).clicks = 1

\* ---------------------------------------------------------------------
\* the request received in this step is a Create whose url is present and
\* parses and whose validity is absent or a positive number
CreateWithValidInput ==
    /\ Starts
    /\ StartedReq.op = "create"
    /\ StartedReq.url # UrlMissing
    /\ isValidUrl(StartedReq.url)
    /\ ~ValidityRejected(StartedReq.validity)

\* C11: a Create (of otherwise valid input) with a custom code that does not
\* match ^[A-Za-z0-9]{5,10}$ answers CodeFormatInvalid (400) and persists
\* nothing, also when a record with exactly that code is stored.
C11_FormatBeforeAvailability ==
    [][(/\ CreateWithValidInput
        /\ StartedReq.custom # NoCustom
        /\ ~CustomCodeFormatOk(StartedReq.custom))
       => /\ AnsweredAtOnce
          /\ last'.resp.outcome = "CodeFormatInvalid"
          /\ last'.resp.status = 400
          /\ db' = db]_vars

\* ---------------------------------------------------------------------
\* the URL has a scheme and a host (3: originalUrl must parse as an absolute
\* URL, scheme + host)
AbsoluteWithHost(url) == url.scheme # "" /\ url.host # ""

\* C12: a Create with a valid URL (scheme and host), no validity and a custom
\* code that matches ^[A-Za-z0-9]{5,10}$ and is not in the repository goes on
\* to persist a record with exactly that code and answers Created with it; a
\* GetStats on the code of a stored, unexpired record returns that shortCode
\* and the record's originalUrl.
C12_CustomCodeRoundTrip ==
    [][/\ (/\ CreateWithValidInput
           /\ AbsoluteWithHost(StartedReq.url)
           /\ StartedReq.validity = ValidityAbsent
           /\ StartedReq.custom # NoCustom
           /\ CustomCodeFormatOk(StartedReq.custom)
           /\ ~Found(db, StartedReq.custom))
          => /\ ~AnsweredAtOnce
             /\ NewHandler.pc = "c_insert"
             /\ NewHandler.req.doc.shortCode = StartedReq.custom
       /\ \A h \in Suspended :
            (/\ Answers(h)
             /\ h.pc = "c_insert"
             /\ h.req.custom # NoCustom
             /\ ~Found(db, h.req.custom))
            => /\ last'.resp.outcome = "Created"
               /\ last'.resp.body.shortCode = h.req.custom
               /\ Found(db', h.req.custom)
               /\ FindOne(db', h.req.custom).originalUrl = h.req.url
       /\ (/\ Starts
           /\ StartedReq.op = "stats"
           /\ Found(db, StartedReq.code)
           /\ ~LogicallyExpired(FindOne(db, StartedReq.code), now))
          => /\ AnsweredAtOnce
             /\ last'.resp.outcome = "Stats"
             /\ last'.resp.body.shortCode = StartedReq.code
             /\ last'.resp.body.originalUrl =
                    FindOne(db, StartedReq.code).originalUrl]_vars

\* ---------------------------------------------------------------------
\* the suspended handler h runs in this step
Resumes(h) ==
    /\ h \in Suspended
    /\ ~Starts
    /\ CopiesIn(h, inflight') < CopiesIn(h, inflight)
\* the locals of the handler that ran in this step, after the step
LocalsAfter == IF last' # NoAnswer THEN last'.req ELSE NewHandler.req

\* C13: the generator looks a candidate up only while fewer than 5 lookups
\* were made; the first candidate not found in the repository ends the loop
\* and is the code of the document to insert; a fifth candidate that collides
\* is answered with GenerationExhausted (500); no lookup writes.
C13_AtMostFiveLookups ==
    [][\A h \in Suspended :
          (Resumes(h) /\ h.pc = "c_gen")
          => /\ h.req.attempts < MAX_ATTEMPTS
             /\ LocalsAfter.attempts = h.req.attempts + 1
             /\ db' = db
             /\ IF ~Found(db, LocalsAfter.shortCodeToUse)
                THEN IF last' = NoAnswer
                     THEN /\ NewHandler.pc = "c_insert"
                          /\ NewHandler.req.doc.shortCode =
                                 LocalsAfter.shortCodeToUse
                     ELSE last'.resp.outcome = "ValidationError"
                ELSE IF LocalsAfter.attempts < MAX_ATTEMPTS
                THEN last' = NoAnswer /\ NewHandler.pc = "c_gen"
                ELSE /\ last'.resp.outcome = "GenerationExhausted"
                     /\ last'.resp.status = 500]_vars

\* five candidates collided with stored records, a record created earlier
\* having been evicted, and the Create answered GenerationExhausted
C13_Witness ==
    /\ last.req.op = "create"
    /\ last.resp.outcome = "GenerationExhausted"
    /\ last.req.attempts = MAX_ATTEMPTS
    /\ Found(db, last.req.shortCodeToUse)
    /\ nextId > Len(db) + 1

\* ---------------------------------------------------------------------
\* C14: a Create of an accepted URL whose validity is absent or a positive
\* number (integer or not) does not fail validation, and the record it
\* persists has expiresAt set: createdAt + 30 minutes when validity is absent,
\* createdAt + m minutes when validity is m (both sides in units of
\* 1 / UnitsPerMinute minute).
C14_ExpiryFromValidity ==
    (/\ last.req.op = "create"
     /\ OriginalUrlMatch(last.req.url)
     /\ ~ValidityRejected(last.req.validity))
    => /\ last.resp.outcome # "ValidationError"
       /\ last.resp.outcome = "Created"
          => LET doc == FindOne(db, last.resp.body.shortCode)
             IN  /\ doc.expiresAt # NULL
                 /\ last.req.validity = ValidityAbsent
                    => doc.expiresAt = doc.createdAt + DEFAULT_VALIDITY
                 /\ last.req.validity.t = "number"
                    => doc.expiresAt * UnitsPerMinute =
                         doc.createdAt * UnitsPerMinute + last.req.validity.v

\* ---------------------------------------------------------------------
\* the validity is present but is not a positive number: zero, negative,
\* null, or not a number
PresentNotPositive(validity) ==
    /\ validity # ValidityAbsent
    /\ validity \in {ValidityNull, ValidityString}
       \/ (validity.t = "number" /\ ~(validity.v > 0))

\* C15 (as claimed): a Create whose validity is present but not a positive
\* number answers InvalidValidity in its first step, before any lookup,
\* generation or insert, and leaves the repository unchanged.
C15_InvalidValidityFirst ==
    [][(/\ Starts
        /\ StartedReq.op = "create"
        /\ PresentNotPositive(StartedReq.validity))
       => /\ AnsweredAtOnce
          /\ last'.resp.outcome = "InvalidValidity"
          /\ db' = db]_vars

\* C15 (amended): the same, for a Create whose url is present and parses.
C15_InvalidValidityAfterUrl ==
    [][(/\ Starts
        /\ StartedReq.op = "create"
        /\ StartedReq.url # UrlMissing
        /\ isValidUrl(StartedReq.url)
        /\ PresentNotPositive(StartedReq.validity))
       => /\ AnsweredAtOnce
          /\ last'.resp.outcome = "InvalidValidity"
          /\ last'.resp.status = 400
          /\ db' = db
          /\ nextId' = nextId]_vars

\* InvalidValidity was answered for a validity of zero although the custom
\* code of the request is the code of a stored record
C15_Witness ==
    /\ last.req.op = "create"
    /\ last.resp.outcome = "InvalidValidity"
    /\ last.req.validity = ValidityNum(0)
    /\ last.req.custom # NoCustom
    /\ Found(db, last.req.custom)

\* ---------------------------------------------------------------------
\* C16: a Create with a url that parses as an absolute URL (any scheme, with
\* a host), no custom code and no validity is answered Created, with the
\* record persisted, or GenerationExhausted: never a failure due to the url.
C16_ParsableUrlAccepted ==
    (/\ last.req.op = "create"
     /\ isValidUrl(last.req.url)
     /\ AbsoluteWithHost(last.req.url)
     /\ last.req.custom = NoCustom
     /\ last.req.validity = ValidityAbsent)
    => /\ last.resp.outcome \in {"Created", "GenerationExhausted"}
       /\ last.resp.outcome = "Created"
          => /\ Found(db, last.resp.body.shortCode)
             /\ FindOne(db, last.resp.body.shortCode).originalUrl = last.req.url

\* ---------------------------------------------------------------------
\* C17: in the state a successful Create leaves, the record stored under the
\* returned code has clicks = 0 and an empty clickHistory, and so has every
\* stored record that no Redirect has written to, whatever was recorded for
\* an evicted record of the same code.
C17_NewRecordHasNoClicks ==
    /\ (last.req.op = "create" /\ last.resp.outcome = "Created")
       => /\ Found(db, last.resp.body.shortCode)
          /\ FindOne(db, last.resp.body.shortCode).clicks = 0
          /\ FindOne(db, last.resp.body.shortCode).clickHistory = <<>>
    /\ \A i \in 1..Len(db) :
          served[db[i].id] = 0
          => db[i].clicks = 0 /\ db[i].clickHistory = <<>>

\* a Create succeeded with the code of an evicted record that had a click
C17_Witness ==
    /\ last.req.op = "create"
    /\ last.resp.outcome = "Created"
    /\ issued = {last.resp.body.shortCode}
    /\ Len(db) = 1
    /\ db[1].id = 2
    /\ served[1] = 1

\* ---------------------------------------------------------------------
\* C18: a Redirect whose record was evicted between its lookup and its write
\* answers NotFound (404), and its write does not re-create the record.
C18_EvictedBeforeWriteIsNotFound ==
    [][\A h \in Suspended :
          (/\ Answers(h)
           /\ h.pc = "r_save"
           /\ ~HasId(db, h.req.docId))
          => /\ last'.resp.outcome = "NotFound"
             /\ last'.resp.status = 404
             /\ db' = db]_vars

\* ---------------------------------------------------------------------
\* C19: a GetStats or a Redirect on a short code that no stored record has,
\* because none was created with it or because its record was evicted,
\* answers NotFound (404) in its first step and writes nothing.
C19_AbsentCodeNotFound ==
    [][(/\ Starts
        /\ StartedReq.op \in {"stats", "redirect"}
        /\ ~Found(db, StartedReq.code))
       => /\ AnsweredAtOnce
          /\ last'.resp.outcome = "NotFound"
          /\ last'.resp.status = 404
          /\ db' = db]_vars

\* NotFound was answered for a code a Create had returned, its record evicted
C19_Witness ==
    /\ last.req.op \in {"stats", "redirect"}
    /\ last.resp.outcome = "NotFound"
    /\ last.req.code \in issued
    /\ ~Found(db, last.req.code)

\* ---------------------------------------------------------------------
\* C20: ListAll answers, in its one step, a list with one summary per stored
\* record, in repository order: logically expired records that are not
\* evicted are in it, evicted records are not, each summary carries the
\* record's shortCode, originalUrl and its clicks as totalClicks; the
\* repository is unchanged.
C20_ListIsRepositoryView ==
    [][(Starts /\ StartedReq.op = "list")
       => /\ AnsweredAtOnce
          /\ last'.resp.outcome = "List"
          /\ last'.resp.status = 200
          /\ Len(last'.resp.body) = Len(db)
          /\ \A i \in 1..Len(db) :
                /\ last'.resp.body[i].shortCode = db[i].shortCode
                /\ last'.resp.body[i].originalUrl = db[i].originalUrl
                /\ last'.resp.body[i].totalClicks = db[i].clicks
          /\ db' = db]_vars

\* a list was answered that has a logically expired record, after the
\* eviction of another record
C20_Witness ==
    /\ last.req.op = "list"
    /\ Len(last.resp.body) = 1
    /\ Len(db) = 1
    /\ LogicallyExpired(db[1], now - 1)
    /\ nextId = 3

\* ---------------------------------------------------------------------
\* the stored record that this step's answer is about: the one a GetStats
\* found under its code, the one a Redirect loaded and wrote to
AnsweredRecord ==
    IF last'.req.op = "stats"
    THEN FindOne(db', last'.req.code)
    ELSE db'[IndexOfId(db', last'.req.docId)]

\* C21: a record that is logically expired stays logically expired for as
\* long as it is stored, and no GetStats or Redirect answers with success
\* (200 with the stats, 302) for a record whose expiresAt is at or before the
\* time of the answer.
C21_ExpiredNeverServedAgain ==
    [][/\ \A i \in 1..Len(db), j \in 1..Len(db') :
            (db[i].id = db'[j].id /\ LogicallyExpired(db[i], now))
            => LogicallyExpired(db'[j], now')
       /\ last'.resp.outcome \in {"Stats", "Redirected"}
          => ~LogicallyExpired(AnsweredRecord, now')]_vars

\* ---------------------------------------------------------------------
\* C22: for as long as a record is stored, its shortCode, originalUrl,
\* createdAt and expiresAt are the values it was inserted with: no step
\* changes them, a Redirect's write included, and the steps of GetStats and
\* ListAll change nothing in the repository.
C22_WriteOnceFields ==
    [][/\ \A i \in 1..Len(db), j \in 1..Len(db') :
            db[i].id = db'[j].id
            => /\ db'[j].shortCode = db[i].shortCode
               /\ db'[j].originalUrl = db[i].originalUrl
               /\ db'[j].createdAt = db[i].createdAt
               /\ db'[j].expiresAt = db[i].expiresAt
       /\ (Starts /\ StartedReq.op \in {"stats", "list"}) => db' = db]_vars

\* a Redirect wrote a click to a record created a minute earlier
C22_Witness ==
    /\ last.req.op = "redirect"
    /\ last.resp.outcome = "Redirected"
    /\ HasId(db, last.req.docId)
    /\ db[IndexOfId(db, last.req.docId)].createdAt < now
    /\ db[IndexOfId(db, last.req.docId)].clicks = 1

\* ---------------------------------------------------------------------
\* s is a prefix of t
IsPrefix(s, t) == Len(s) <= Len(t) /\ SubSeq(t, 1, Len(s)) = s

\* C23: in every step, every record that stays stored keeps or increases its
\* clicks, and its clickHistory before the step is a prefix of its
\* clickHistory after it.
C23_ClicksMonotone ==
    [][\A i \in 1..Len(db), j \in 1..Len(db') :
          db[i].id = db'[j].id
          => /\ db'[j].clicks >= db[i].clicks
             /\ IsPrefix(db[i].clickHistory, db'[j].clickHistory)]_vars

\* ---------------------------------------------------------------------
\* the ids of the records this step adds to the repository
AddedIds ==
    {db'[j].id : j \in 1..Len(db')} \ {db[i].id : i \in 1..Len(db)}

\* C24: a step adds a record only when it is the step in which a Create
\* answers Created, and that step adds exactly one; every other step, those
\* of a Create that answers anything else and those of GetStats, Redirect and
\* ListAll included, adds none.
C24_OnlyCreateAddsRecords ==
    [][IF last'.req.op = "create" /\ last'.resp.outcome = "Created"
       THEN /\ Cardinality(AddedIds) = 1
            /\ Len(db') = Len(db) + 1
       ELSE /\ AddedIds = {}
            /\ Len(db') <= Len(db)]_vars

\* a third Create was refused with CodeConflict after two Creates had
\* succeeded and one of their records had been evicted
C24_Witness ==
    /\ last.req.op = "create"
    /\ last.resp.outcome = "CodeConflict"
    /\ nextId = 3
    /\ Len(db) = 1

\* ---------------------------------------------------------------------
\* a request handler runs in this step: a request is received or a suspended
\* handler resumes
HandlerStep == Starts \/ \E h \in Suspended : Resumes(h)

\* the short code the handler that runs in this step is concerned with: the
\* code in the path of a Redirect or a GetStats, the code a Create is to use
ConcernedCode ==
    IF LocalsAfter.op = "create"
    THEN LocalsAfter.shortCodeToUse
    ELSE LocalsAfter.code

\* C25: a step of a Create or a Redirect concerned with code A leaves every
\* stored record whose shortCode differs from A exactly as it was, at its
\* place in the repository.
C25_OtherCodesUntouched ==
    [][(HandlerStep /\ LocalsAfter.op \in {"create", "redirect"})
       => \A i \in 1..Len(db) :
             db[i].shortCode # ConcernedCode
             => i <= Len(db') /\ db'[i] = db[i]]_vars

\* a Redirect wrote its click while a record with another code and the same
\* originalUrl was stored
C25_Witness ==
    /\ last.req.op = "redirect"
    /\ last.resp.outcome = "Redirected"
    /\ \E i \in 1..Len(db) :
          /\ db[i].shortCode # last.req.code
          /\ db[i].originalUrl = last.req.originalUrl

\* ---------------------------------------------------------------------
\* C26: every stored record that has an expiresAt has it strictly after its
\* createdAt, whatever validity its Create was given.
C26_ExpiresAfterCreated ==
    \A i \in 1..Len(db) :
        db[i].expiresAt # NULL => db[i].expiresAt > db[i].createdAt

\* a Create with a validity of a fraction of a minute, which would expire at
\* its creation instant, was refused, while a record of a whole-minute
\* validity is stored
C26_Witness ==
    /\ last.req.op = "create"
    /\ last.req.validity = ValidityNum(1)
    /\ last.resp.outcome = "ValidationError"
    /\ OriginalUrlMatch(last.req.url)
    /\ Len(db) = 1
    /\ db[1].expiresAt = db[1].createdAt + 1

\* ---------------------------------------------------------------------
\* C27: in the clickHistory of every stored record the timestamps are
\* non-decreasing in sequence order.
C27_HistoryChronological ==
    \A i \in 1..Len(db) :
        \A k, l \in 1..Len(db[i].clickHistory) :
            k < l => db[i].clickHistory[k].timestamp
                        <= db[i].clickHistory[l].timestamp

\* ---------------------------------------------------------------------
\* C28: when a Redirect that ran with no other request in flight answers 302,
\* its write has increased the record's clicks by exactly 1 and appended
\* exactly one event to its clickHistory; the event's source is the referer
\* header if present, else the user-agent header if present, else the
\* sentinel, its location is the requester address; the response redirects
\* to the record's stored originalUrl.
C28_RedirectRecordsOneClick ==
    [][\A h \in Suspended :
          (/\ Answers(h)
           /\ h.pc = "r_save"
           /\ last'.resp.outcome = "Redirected")
          => LET i == IndexOfId(db, h.req.docId)
                 before == db[i].clickHistory
                 after == db'[i].clickHistory
                 event == after[Len(after)]
                 ctx == h.req.ctx
             IN  /\ db'[i].clicks = db[i].clicks + 1
                 /\ Len(after) = Len(before) + 1
                 /\ SubSeq(after, 1, Len(before)) = before
                 /\ ctx.referer # NoHeader => event.source = ctx.referer
                 /\ (ctx.referer = NoHeader /\ ctx.agent # NoHeader)
                    => event.source = ctx.agent
                 /\ (ctx.referer = NoHeader /\ ctx.agent = NoHeader)
                    => event.source = "Direct/Unknown"
                 /\ event.location = ctx.ip
                 /\ last'.resp.status = 302
                 /\ last'.resp.body = db[i].originalUrl]_vars

\* a Redirect without referer and user-agent headers answered 302
C28_Witness ==
    /\ last.req.op = "redirect"
    /\ last.resp.outcome = "Redirected"
    /\ last.req.ctx.referer = NoHeader
    /\ last.req.ctx.agent = NoHeader
    /\ FindOne(db, last.req.code).clickHistory[1].source = "Direct/Unknown"

\* ---------------------------------------------------------------------
\* C29: when a Redirect answers 302 its click is in the repository: the
\* record it loaded is stored and the last event of its clickHistory is the
\* event of this Redirect; when the write fails the Redirect answers a server
\* error (500), not a redirect, and the repository is as it was.
C29_ClickStoredBeforeRedirect ==
    [][\A h \in Suspended :
          (Answers(h) /\ h.pc = "r_save")
          => IF HasId(db, h.req.docId)
             THEN /\ last'.resp.outcome = "Redirected"
                  /\ HasId(db', h.req.docId)
                  /\ LET history ==
                             db'[IndexOfId(db', h.req.docId)].clickHistory
                     IN  /\ Len(history) > 0
                         /\ history[Len(history)] = h.req.pushed
             ELSE /\ last'.resp.outcome = "ServerError"
                  /\ last'.resp.status = 500
                  /\ db' = db]_vars

\* a Redirect whose record was evicted before its write answered 500 while
\* another record is stored
C29_Witness ==
    /\ last.req.op = "redirect"
    /\ last.resp.outcome = "ServerError"
    /\ ~HasId(db, last.req.docId)
    /\ Len(db) = 1

\* ---------------------------------------------------------------------
\* a url that new URL(...) rejects: no scheme, or a special scheme and no host
Unparsable(url) ==
    \/ url.scheme = ""
    \/ url.scheme \in {"http", "https", "ftp", "ws", "wss"} /\ url.host = ""

\* C30: a Create reports the first failing check of: url missing (MissingUrl),
\* url unparsable (InvalidUrl), validity present and not a positive number
\* (InvalidValidity); each is answered with 400 in the first step, whatever
\* the later inputs are, the repository unchanged; a Create that passes the
\* three answers none of them.
C30_ValidationOrder ==
    [][(Starts /\ StartedReq.op = "create")
       => LET r == StartedReq
              failed ==
                  IF r.url = UrlMissing THEN "MissingUrl"
                  ELSE IF Unparsable(r.url) THEN "InvalidUrl"
                  ELSE IF PresentNotPositive(r.validity) THEN "InvalidValidity"
                  ELSE "none"
          IN  IF failed # "none"
              THEN /\ AnsweredAtOnce
                   /\ last'.resp.outcome = failed
                   /\ last'.resp.status = 400
                   /\ db' = db
              ELSE AnsweredAtOnce
                   => last'.resp.outcome \notin
                          {"MissingUrl", "InvalidUrl", "InvalidValidity"}]_vars

\* InvalidUrl was answered for a request whose validity is null and whose
\* custom code is the code of a stored record
C30_Witness ==
    /\ last.req.op = "create"
    /\ last.resp.outcome = "InvalidUrl"
    /\ last.req.validity = ValidityNull
    /\ last.req.custom # NoCustom
    /\ Found(db, last.req.custom)

\* ======================================================================
\* Routing
\* ======================================================================
\* a request path is the sequence of its segments; the mount point of the
\* router is the segment "shorturls", which is also a short code of the custom
\* format (nine alphanumeric characters)
CodeShorturls == <<"s","h","o","r","t","u","r","l","s">>

NoRoute == [handler |-> "none", shortCode |-> NoCustom]

\* routes/urlRoutes.js, on the rest of the path below the mount point:
\* router.post('/') and router.get('/:shortCode'), nothing else
urlRoutes(method, rest) ==
    IF method = "POST" /\ rest = <<>>
    THEN [handler |-> "createShortUrl", shortCode |-> NoCustom]
    ELSE IF method = "GET" /\ Len(rest) = 1
    THEN [handler |-> "getShortUrlStats", shortCode |-> rest[1]]
    ELSE NoRoute

\* app.js: app.use('/shorturls', urlRoutes), then app.get('/:shortCode'); a
\* request the router does not answer falls through to the next route
app(method, path) ==
    LET mounted == IF path # <<>> /\ Head(path) = CodeShorturls
                   THEN urlRoutes(method, Tail(path))
                   ELSE NoRoute
    IN  IF mounted # NoRoute THEN mounted
        ELSE IF method = "GET" /\ Len(path) = 1
        THEN [handler |-> "redirectToOriginal", shortCode |-> path[1]]
        ELSE NoRoute

\* the JSON body of a request: url, validity, shortcode
Body(url, validity, shortcode) ==
    [url |-> url, validity |-> validity, shortcode |-> shortcode]
EmptyBody == Body(UrlMissing, ValidityAbsent, NoCustom)

\* the server receives a request and runs the handler it is routed to
Handle(method, path, body, ctx) ==
    LET route == app(method, path) IN
    \/ /\ route.handler = "createShortUrl"
       /\ CreateStart(body.url, body.validity, body.shortcode)
    \/ /\ route.handler = "getShortUrlStats"
       /\ GetStats(route.shortCode)
    \/ /\ route.handler = "redirectToOriginal"
       /\ RedirectFind(route.shortCode, ctx)

\* ------------------------------------------------------ the routed model
\* one request at a time, received over HTTP: the list path, the stats path
\* and the redirect path of two codes, one of them "shorturls"; bodies with a
\* valid URL, one minute of validity, no custom code or "shorturls"
HttpMethods == {"GET", "POST"}
HttpCodes == {CodeAbcd1, CodeShorturls}
HttpPaths ==
    {<<CodeShorturls>>}
        \cup {<<CodeShorturls, c>> : c \in HttpCodes}
        \cup {<<c>> : c \in HttpCodes}
HttpBodies ==
    {Body(UrlHttps, ValidityNum(UnitsPerMinute), c) :
        c \in {NoCustom, CodeShorturls}}

NextHttp ==
    \/ Tick
    \/ \E i \in Ids : Evict(i)
    \/ \E method \in HttpMethods, path \in HttpPaths, body \in HttpBodies,
          ctx \in SpecCtxs :
            Quiet /\ Handle(method, path, body, ctx)
    \/ \E h \in Suspended, cand \in nanoid(CODE_SIZE) : CreateGenerate(h, cand)
    \/ \E h \in Suspended : CreateInsert(h)
    \/ \E h \in Suspended : RedirectSave(h)

SpecHttp == Init /\ [][NextHttp]_vars

\* the list request, GET /shorturls, is received in this step
ListRequest ==
    \E ctx \in SpecCtxs : Handle("GET", <<CodeShorturls>>, EmptyBody, ctx)

\* C31: a list request on the /shorturls path is served by ListAll: it is
\* answered 200 with the summary list in the step it is received, in every
\* repository state; it is never handled as a Redirect or a GetStats for a
\* short code, and it changes no record (records no click).
C31_ListRequestServedByListAll ==
    [][ListRequest
       => /\ AnsweredAtOnce
          /\ last'.req.op = "list"
          /\ last'.resp.outcome = "List"
          /\ last'.resp.status = 200
          /\ db' = db]_vars

\* ======================================================================
\* Repository failures
\* ======================================================================
\* the locals of a Create as received
CreateReq(url, validity, custom) ==
    [op |-> "create", url |-> url, validity |-> validity, custom |-> custom,
     shortCodeToUse |-> custom, attempts |-> 0, doc |-> NoBody]

\* the repository call of a new request's first step throws: the handler's
\* catch block answers 500, nothing was written
FindFails(r) ==
    /\ CanStart
    /\ started' = started + 1
    /\ Begin(Answer(r, Response("ServerError", 500, NoBody)))
    /\ UNCHANGED <<now, db, nextId, issued, served>>

\* createShortUrl: the availability lookup of the custom code throws (the
\* request has passed the three input checks, which call no repository)
CreateFindFails(url, validity, custom) ==
    /\ url # UrlMissing
    /\ isValidUrl(url)
    /\ ~ValidityRejected(validity)
    /\ custom # NoCustom
    /\ FindFails(CreateReq(url, validity, custom))

\* getShortUrlStats: findOne throws
StatsFindFails(code) == FindFails([op |-> "stats", code |-> code])

\* redirectToOriginal: findOne throws
RedirectFindFails(code, ctx) == FindFails(RedirectReq(code, ctx))

\* getAllShortUrls: find throws
ListFindFails == FindFails([op |-> "list"])

\* (mutant) the rejection is not caught: the process exits, and every request
\* in flight is left without a response
AwaitFails_uncaught(h) ==
    /\ h \in Suspended
    /\ inflight' = EmptyBag
    /\ last' = NoAnswer
    /\ UNCHANGED <<now, db, nextId, started, issued, served>>
    /\ UNCHANGED formVars

\* the repository call a suspended handler awaits rejects (the generator's
\* lookup, the insert, the save of the click): the catch block answers 500
AwaitFails(h) ==
    /\ h \in Suspended
    /\ Resume(h, Answer(h.req, Response("ServerError", 500, NoBody)))
    /\ UNCHANGED <<now, db, nextId, started, issued, served>>

\* ------------------------------------------------------ the failure model
\* the concurrent requests of the lifecycle model on one short code, every
\* repository call of which may also throw; the clock stands still
FailCodes == {CodeAbcd1}

NextFail ==
    \/ \E custom \in SpecCustoms :
            CreateStart(UrlHttps, ValidityNum(UnitsPerMinute), custom)
    \/ \E h \in Suspended, cand \in nanoid(CODE_SIZE) : CreateGenerate(h, cand)
    \/ \E h \in Suspended : CreateInsert(h)
    \/ \E code \in FailCodes : GetStats(code)
    \/ \E code \in FailCodes, ctx \in SpecCtxs : RedirectFind(code, ctx)
    \/ \E h \in Suspended : RedirectSave(h)
    \/ ListAll
    \/ \E custom \in SpecCustoms :
            CreateFindFails(UrlHttps, ValidityNum(UnitsPerMinute), custom)
    \/ \E code \in FailCodes : StatsFindFails(code)
    \/ \E code \in FailCodes, ctx \in SpecCtxs : RedirectFindFails(code, ctx)
    \/ ListFindFails
    \/ \E h \in Suspended : AwaitFails(h)

SpecFail == Init /\ [][NextFail]_vars

\* a repository call throws in this step
RepositoryFails ==
    \/ \E custom \in SpecCustoms :
            CreateFindFails(UrlHttps, ValidityNum(UnitsPerMinute), custom)
    \/ \E code \in FailCodes : StatsFindFails(code)
    \/ \E code \in FailCodes, ctx \in SpecCtxs : RedirectFindFails(code, ctx)
    \/ ListFindFails
    \/ \E h \in Suspended : AwaitFails(h)

\* C32: a repository call that throws during one request ends that request,
\* and only that one, with the server-error outcome (500), which is none of
\* the validation, conflict, NotFound and Gone outcomes; the repository, the
\* clock and every other handler in flight are as they were, so that what
\* other and later requests do and answer is not altered.
C32_RepositoryFailureIsLocal ==
    [][RepositoryFails
       => /\ last'.resp.outcome = "ServerError"
          /\ last'.resp.status = 500
          /\ last'.resp.status \notin {400, 409, 404, 410}
          /\ db' = db
          /\ nextId' = nextId
          /\ now' = now
          /\ \/ AnsweredAtOnce
             \/ /\ ~Starts
                /\ \E h \in Suspended :
                      /\ h.req = last'.req
                      /\ inflight' = inflight (-) One(h)]_vars

\* a write threw (the 500 answers a Redirect that was waiting for its save
\* and whose record is still stored) while another handler is in flight
C32_Witness ==
    /\ last.resp.outcome = "ServerError"
    /\ last.req.op = "redirect"
    /\ HasId(db, last.req.docId)
    /\ inflight # EmptyBag

\* ------------------------------------------------------ the fair model
\* the failure model in which no awaited repository call is pending for
\* ever: a suspended handler is eventually resumed, by the call's result or
\* by its failure
Continues ==
    \E h \in Suspended :
        \/ \E cand \in nanoid(CODE_SIZE) : CreateGenerate(h, cand)
        \/ CreateInsert(h)
        \/ RedirectSave(h)
        \/ AwaitFails(h)

SpecFair == Init /\ [][NextFail]_vars /\ WF_vars(Continues)

\* the number of responses sent in this step
Responses == IF last' # NoAnswer THEN 1 ELSE 0
\* the number of requests received in this step
Received == started' - started

\* C33: every Create, GetStats, Redirect and ListAll request terminates
\* with exactly one outcome, provided each repository call eventually returns
\* or fails. In every step, the requests received are the requests that stay
\* in flight plus the responses sent: a request leaves the handlers only by a
\* response, and a response ends exactly one request (never zero responses,
\* never two); and whenever requests are in flight, a time comes when none is.
C33_ExactlyOneOutcome ==
    /\ [][/\ Received \in {0, 1}
          /\ Responses \in {0, 1}
          /\ Received = BagCardinality(inflight') - BagCardinality(inflight)
                            + Responses
          /\ Responses = 1 => last'.resp.outcome # NoResponse.outcome]_vars
    /\ (inflight # EmptyBag) ~> (inflight = EmptyBag)

\* a Create that went through two turns of the generator and the insert was
\* answered 201, and no request is in flight
C33_Witness ==
    /\ last.req.op = "create"
    /\ last.resp.outcome = "Created"
    /\ last.req.attempts >= 2
    /\ inflight = EmptyBag

\* ---------------------------------------------------------------------
\* the code was returned by an earlier 201 and no record carries it now: its
\* record has been physically evicted (nothing else removes a record)
EvictedCode(code) == code \in issued /\ ~Found(db, code)

\* the document is a new record for the request r built at time t: no
\* clicks, no history, the request's URL, the expiry of the request's validity
FreshFor(doc, r, t) ==
    /\ doc.shortCode = r.custom
    /\ doc.clicks = 0
    /\ doc.clickHistory = <<>>
    /\ doc.originalUrl = r.url
    /\ doc.createdAt = t
    /\ doc.expiresAt = calculateExpiry(ValidityOrDefault(r.validity), t)

\* C34: a short code is available again once its record is physically
\* evicted: a Create with a valid URL (scheme and host), no validity and that
\* code as custom code passes the availability lookup and goes on to the
\* insert, the insert of a code that is still free answers Created, and the
\* new record has clicks 0, an empty clickHistory, the request's originalUrl
\* and an expiresAt computed from the request, nothing of the old record.
C34_EvictedCodeAvailableAgain ==
    [][/\ (/\ CreateWithValidInput
           /\ AbsoluteWithHost(StartedReq.url)
           /\ StartedReq.validity = ValidityAbsent
           /\ StartedReq.custom # NoCustom
           /\ EvictedCode(StartedReq.custom))
          => /\ ~AnsweredAtOnce
             /\ NewHandler.pc = "c_insert"
             /\ FreshFor(NewHandler.req.doc, StartedReq, now)
       /\ \A h \in Suspended :
            (/\ Answers(h)
             /\ h.pc = "c_insert"
             /\ h.req.custom # NoCustom
             /\ EvictedCode(h.req.custom))
            => /\ last'.resp.outcome = "Created"
               /\ Found(db', h.req.custom)
               /\ FindOne(db', h.req.custom) =
                      [h.req.doc EXCEPT !.id = nextId]
               /\ ~HasId(db, nextId)]_vars

\* ======================================================================
\* The URL shortener form
\* ======================================================================
\* the object the slot refers to
Slot(i) == objects[urlInputs[i]]

\* what a user can type into the three fields: a URL ('' is the empty one),
\* a validity and a shortcode as strings of characters
FormUrls == {UrlMissing, UrlNotAUrl, UrlHttps, UrlWs}
FormValidities == {<<>>, <<"0">>, <<"5">>, <<"1", "0">>}
FormShortcodes == {NoCustom, CodeShort, CodeAbcd1}
FieldValues(field) ==
    CASE field = "originalUrl" -> FormUrls
      [] field = "validity" -> FormValidities
      [] field = "shortcode" -> FormShortcodes
Fields == {"originalUrl", "validity", "shortcode"}

\* isNaN of a non-empty string of characters: it is not a decimal number
isNaN(str) == \E i \in 1..Len(str) : str[i] \notin Digit

\* parseInt of a string of decimal digits
RECURSIVE parseInt(_)
parseInt(str) ==
    IF str = <<>> THEN 0
    ELSE 10 * parseInt(SubSeq(str, 1, Len(str) - 1))
            + (CHOOSE n \in 0..9 : ToString(n) = str[Len(str)])

\* validateInput: the message of the first check that fails, or null
validateInput(input) ==
    IF input.originalUrl = UrlMissing
    THEN "Original URL is required."
    ELSE IF ~isValidUrl(input.originalUrl)
    THEN "Invalid URL format."
    ELSE IF /\ input.validity # <<>>
            /\ (isNaN(input.validity) \/ parseInt(input.validity) <= 0)
    THEN "Validity must be a positive number in minutes."
    ELSE IF input.shortcode # NoCustom /\ ~CustomCodeFormatOk(input.shortcode)
    THEN "Custom shortcode must be 5-10 alphanumeric characters."
    ELSE NoError

\* handleInputChange(index, field, value): a copy of the array, then the
\* assignments to the object the copy holds at index
handleInputChange(index, field, value) ==
    /\ ~Slot(index).loading
    /\ objects' = [objects EXCEPT ![urlInputs[index]] =
                      [[@ EXCEPT ![field] = value]
                          EXCEPT !.result = NoBody, !.error = NoError]]
    /\ urlInputs' = urlInputs
    /\ UNCHANGED fetches
    /\ UNCHANGED serverVars

\* the payload of the POST: url, and validity and shortcode when truthy
Payload(input) ==
    Body(input.originalUrl,
         IF input.validity # <<>>
         THEN ValidityNum(parseInt(input.validity) * UnitsPerMinute)
         ELSE ValidityAbsent,
         input.shortcode)

\* handleShortenUrl(index) up to its await of fetch: the validation error is
\* stored, or loading is set and the request is sent
handleShortenUrl(index) ==
    /\ ~Slot(index).loading
    /\ LET input == Slot(index)
           validationError == validateInput(input)
       IN  IF validationError # NoError
           THEN /\ objects' = [objects EXCEPT ![urlInputs[index]] =
                                  [@ EXCEPT !.error = validationError]]
                /\ UNCHANGED fetches
           ELSE /\ objects' = [objects EXCEPT ![urlInputs[index]] =
                                  [@ EXCEPT !.loading = TRUE,
                                            !.error = NoError,
                                            !.result = NoBody]]
                /\ fetches' = fetches \cup
                       {[index |-> index, newInputs |-> urlInputs,
                         payload |-> Payload(input)]}
    /\ urlInputs' = urlInputs
    /\ UNCHANGED serverVars

\* what fetch and response.json() can give for a payload: a 2xx response with
\* the created record, another response with a message, or a rejection
FetchResults(payload) ==
    {[kind |-> "ok",
      data |-> [shortCode |-> IF payload.shortcode # NoCustom
                              THEN payload.shortcode ELSE CodeDashed,
                originalUrl |-> payload.url,
                expiry |-> IsoOrNull(calculateExpiry(
                               ValidityOrDefault(payload.validity), 0))]],
     [kind |-> "not ok",
      data |-> [message |-> "Server error while creating short URL."]],
     [kind |-> "rejected", data |-> [message |-> "Failed to fetch"]]}

\* handleShortenUrl from the await on: result or error is stored in the
\* object that the array copied before the await holds at index, loading is
\* reset, and that array becomes the state
handleShortenUrlSettles(f, response) ==
    /\ f \in fetches
    /\ objects' = [objects EXCEPT ![f.newInputs[f.index]] =
          [(IF response.kind = "ok"
            THEN [@ EXCEPT !.result =
                     [shortCode |-> response.data.shortCode,
                      originalUrl |-> response.data.originalUrl,
                      expiry |-> response.data.expiry,
                      shortenedUrl |-> <<response.data.shortCode>>]]
            ELSE IF response.kind = "not ok"
            THEN [@ EXCEPT !.error = response.data.message]
            ELSE [@ EXCEPT !.error = "Network error or server unreachable."])
           EXCEPT !.loading = FALSE]]
    /\ urlInputs' = f.newInputs
    /\ fetches' = fetches \ {f}
    /\ UNCHANGED serverVars

NextForm ==
    \/ \E index \in Slots, field \in Fields :
          \E value \in FieldValues(field) :
              handleInputChange(index, field, value)
    \/ \E index \in Slots : handleShortenUrl(index)
    \/ \E f \in fetches : \E response \in FetchResults(f.payload) :
          handleShortenUrlSettles(f, response)

SpecForm == Init /\ [][NextForm]_vars

\* slot i's handler runs in this step: handleInputChange(i, field, value) or
\* handleShortenUrl(i), up to or from its await
SlotStep(i) ==
    \/ \E field \in Fields : \E value \in FieldValues(field) :
          handleInputChange(i, field, value)
    \/ handleShortenUrl(i)
    \/ \E f \in fetches : \E response \in FetchResults(f.payload) :
          f.index = i /\ handleShortenUrlSettles(f, response)

\* the object slot j refers to after the step
SlotAfter(j) == objects'[urlInputs'[j]]

\* C35: the five input slots of the form are independent:
\* handleInputChange(i, field, value) and handleShortenUrl(i) change slot i's
\* originalUrl, validity, shortcode, result, error and loading only, and the
\* values of every other slot j # i are after the step what they were before.
C35_SlotsIndependent ==
    [][\A i \in Slots :
          SlotStep(i) => \A j \in Slots \ {i} : SlotAfter(j) = Slot(j)]_vars

====
